---- MODULE Spec2Model ----
(***************************************************************************)
(* A model of cornac's BPR recommender (cornac/models/bpr/recom_bpr.py):   *)
(* construction, fit(), score() and rank().  Factor matrices are sequences *)
(* of rows over small integers; item and user indices are 0-based as in    *)
(* the code, so row i of a matrix M is M[i + 1].                           *)
(***************************************************************************)
EXTENDS Integers, Sequences, FiniteSets

VARIABLES
    k, max_iter, learning_rate, lamda, batch_size, trainable, init_params,
    U, V,          \* self.U, self.V
    train_set,     \* self.train_set: None, or <<r>> with the fields rank/score read
    pc,            \* where the single thread of control is
    X,             \* fit's local X: the (user, item) pairs of the interaction matrix
    n_epochs,      \* bpr's parameter n_epochs
    epoch, step,   \* bpr's loop counters
    cur, attempts, \* the sampler's current (user, positive) pair and rejected draws
    skipped,       \* has a triple been skipped for sampler exhaustion in this fit
    bpr_called,    \* has bpr() ever been invoked on this instance
    last           \* the last completed call and what it gave back

vars == <<k, max_iter, learning_rate, lamda, batch_size, trainable, init_params,
          U, V, train_set, pc, X, n_epochs, epoch, step, cur, attempts, skipped,
          bpr_called, last>>

hyper == <<k, max_iter, learning_rate, lamda, batch_size, trainable, init_params>>
locals == <<X, n_epochs, epoch, step, cur, attempts, skipped>>

----------------------------------------------------------------------------
\* Bounds of the model: the largest item population and the sampler's cap
\* on rejected negative draws.
MaxItems == 2
MaxRetries == 1

\* Python's None for U, V, init_params[...] and train_set: the empty tuple.
\* Every matrix of the model has at least one row, so the two never meet.
None == << >>

\* Factor entries, and the user populations, exercised.
Vals == {0, 1, 2}
UserCounts == {1, 2}
Matrix(rows, cols) == [1..rows -> [1..cols -> Vals]]

\* Hyperparameter values exercised; 0 and -1 are the invalid ones.  RatePairs
\* are the pairs (learning_rate, lamda).
Ks == {0, 1}
MaxIters == {0, 1, 2}
RatePairs == {<<1, 0>>, <<-1, 0>>, <<1, -1>>}
BatchSizes == {1, 2}

\* Factor matrices a caller may pass in init_params: any shape up to the
\* largest population, any width a valid k allows.
SuppliedU == UNION {Matrix(r, c) : r \in UserCounts, c \in Ks \ {0}}
SuppliedV == UNION {Matrix(r, c) : r \in 1..MaxItems, c \in Ks \ {0}}
ZeroMatrix(rows, cols) == [i \in 1..rows |-> [j \in 1..cols |-> 0]]

\* Default scores exercised.
DefaultScores == {0, 1}

\* The Dataset collaborator handed to fit().
Datasets ==
    UNION {[num_users : {nu}, num_items : {ni}, default_score : DefaultScores,
            matrix : (SUBSET ((0..nu-1) \X (0..ni-1))) \ {{}}] :
           nu \in UserCounts, ni \in 1..MaxItems}

NoCall == [op |-> "none", user |-> 0, item |-> 0, restricted |-> FALSE,
           cands |-> << >>, outcome |-> "none", score |-> 0, ranked |-> << >>,
           epochs |-> 0, skipped |-> FALSE]

----------------------------------------------------------------------------
\* BPR.__init__: every argument is stored as given, nothing is checked.
Constructed ==
    /\ U = init_params.U
    /\ V = init_params.V
    /\ train_set = None
    /\ pc = "idle"
    /\ X = {}
    /\ n_epochs = 0
    /\ epoch = 0
    /\ step = 0
    /\ cur = <<0, 0>>
    /\ attempts = 0
    /\ skipped = FALSE
    /\ bpr_called = FALSE
    /\ last = NoCall

\* Models with valid hyperparameters: a pre-trained one (trainable = False)
\* given any factors or none, and a trainable one given none.
Init ==
    /\ k \in Ks \ {0}
    /\ max_iter = 1 /\ learning_rate = 1 /\ lamda = 0 /\ batch_size = 1
    /\ \/ /\ trainable = FALSE
          /\ init_params \in [U : SuppliedU \cup {None}, V : SuppliedV \cup {None}]
       \/ /\ trainable = TRUE
          /\ init_params = [U |-> None, V |-> None]
    /\ Constructed

\* Models with any hyperparameters and no initial factors, and models with
\* valid hyperparameters warm-started from factors of any shape.
InitAnyHyper ==
    /\ trainable \in BOOLEAN
    /\ \/ /\ k \in Ks
          /\ max_iter \in MaxIters
          /\ \E rates \in RatePairs : learning_rate = rates[1] /\ lamda = rates[2]
          /\ batch_size \in BatchSizes
          /\ init_params = [U |-> None, V |-> None]
       \/ /\ k \in Ks \ {0}
          /\ max_iter = 1 /\ learning_rate = 1 /\ lamda = 0 /\ batch_size = 1
          /\ \E ru \in UserCounts, ri \in 1..MaxItems, cu, cv \in Ks \ {0} :
                init_params = [U |-> ZeroMatrix(ru, cu), V |-> ZeroMatrix(ri, cv)]
    /\ Constructed

----------------------------------------------------------------------------
\* fit()

\* Recommender.fit stores the dataset; of it, score() and rank() read
\* num_users and num_items (through is_unk_user, is_unk_item) and the default
\* score.
Stored(ds) == <<[num_users |-> ds.num_users, num_items |-> ds.num_items,
                 default_score |-> ds.default_score]>>

FitResult(outcome) == [NoCall EXCEPT !.op = "fit", !.outcome = outcome,
                                     !.epochs = epoch, !.skipped = skipped]

\* fit() storing new factors whether or not the model is trainable.
FitPretrained_Retrained(ds) ==
    /\ pc = "idle"
    /\ ~trainable
    /\ train_set' = Stored(ds)
    /\ U' = ZeroMatrix(ds.num_users, k)
    /\ V' = ZeroMatrix(ds.num_items, k)
    /\ last' = [NoCall EXCEPT !.op = "fit", !.outcome = "ok"]
    /\ pc' = "returned"
    /\ UNCHANGED <<hyper, locals, bpr_called>>

\* fit() on a model with trainable = False: the dataset is stored, the
\* branch that trains is not taken.
FitPretrained(ds) ==
    /\ pc = "idle"
    /\ ~trainable
    /\ train_set' = Stored(ds)
    /\ last' = [NoCall EXCEPT !.op = "fit", !.outcome = "ok"]
    /\ pc' = "returned"
    /\ UNCHANGED <<hyper, U, V, locals, bpr_called>>

\* fit() passing batch_size where bpr() takes n_epochs.
FitBegin_EpochsMixedUp(ds) ==
    /\ pc = "idle"
    /\ trainable
    /\ ~bpr_called
    /\ train_set' = Stored(ds)
    /\ X' = ds.matrix
    /\ n_epochs' = batch_size
    /\ bpr_called' = TRUE
    /\ epoch' = 0
    /\ step' = 0
    /\ skipped' = FALSE
    /\ pc' = "bpr_init"
    /\ UNCHANGED <<hyper, U, V, cur, attempts, last>>

\* fit() on a trainable model, up to the call of bpr(): n_epochs = max_iter.
\* The model trains an instance once.
FitBegin(ds) ==
    /\ pc = "idle"
    /\ trainable
    /\ ~bpr_called
    /\ train_set' = Stored(ds)
    /\ X' = ds.matrix
    /\ n_epochs' = max_iter
    /\ bpr_called' = TRUE
    /\ epoch' = 0
    /\ step' = 0
    /\ skipped' = FALSE
    /\ pc' = "bpr_init"
    /\ UNCHANGED <<hyper, U, V, cur, attempts, last>>

num_users == train_set[1].num_users
num_items == train_set[1].num_items

\* Factor matrix initialization: a supplied matrix must have the shape of
\* its population.
ShapeOK(M, rows) == M = None \/ (Len(M) = rows /\ Len(M[1]) = k)

\* The locals of fit() and bpr() end with the call.
LocalsDropped ==
    /\ X' = {}
    /\ n_epochs' = 0
    /\ epoch' = 0
    /\ step' = 0
    /\ cur' = <<0, 0>>
    /\ attempts' = 0
    /\ skipped' = FALSE

\* bpr() starts from the supplied factors; a mismatch of shapes is a
\* configuration error, which fit() does not catch.
BprInit ==
    /\ pc = "bpr_init"
    /\ IF ShapeOK(init_params.U, num_users) /\ ShapeOK(init_params.V, num_items)
       THEN /\ pc' = "epoch"
            /\ UNCHANGED <<locals, last>>
       ELSE /\ last' = FitResult("ConfigurationError")
            /\ pc' = "returned"
            /\ LocalsDropped
    /\ UNCHANGED <<hyper, U, V, train_set, bpr_called>>

\* The head of the epoch loop: n_epochs epochs, no early stopping.
EpochBegin ==
    /\ pc = "epoch"
    /\ epoch < n_epochs
    /\ step' = 0
    /\ pc' = "draw"
    /\ UNCHANGED <<hyper, U, V, train_set, X, n_epochs, epoch, cur, attempts,
                   skipped, bpr_called, last>>

\* The sampler draws a user with an observed interaction and one of the
\* user's positive items.
DrawTriple ==
    /\ pc = "draw"
    /\ step < batch_size
    /\ \E p \in X : cur' = p
    /\ attempts' = 0
    /\ pc' = "negative"
    /\ UNCHANGED <<hyper, U, V, train_set, X, n_epochs, epoch, step, skipped,
                   bpr_called, last>>

\* A negative item is drawn from all items; one the user has not interacted
\* with is accepted and the gradient step is taken (the factors bpr() works
\* on are its own until it returns them).
NegativeAccepted ==
    /\ pc = "negative"
    /\ attempts < MaxRetries
    /\ \E j \in 0..num_items-1 : <<cur[1], j>> \notin X
    /\ step' = step + 1
    /\ pc' = "draw"
    /\ UNCHANGED <<hyper, U, V, train_set, X, n_epochs, epoch, cur, attempts,
                   skipped, bpr_called, last>>

\* A draw that is a positive of the user is rejected and redrawn, up to
\* MaxRetries times.
NegativeRejected ==
    /\ pc = "negative"
    /\ \E j \in 0..num_items-1 : <<cur[1], j>> \in X
    /\ attempts < MaxRetries
    /\ attempts' = attempts + 1
    /\ UNCHANGED <<hyper, U, V, train_set, pc, X, n_epochs, epoch, step, cur,
                   skipped, bpr_called, last>>

\* Out of retries: the triple is skipped and training goes on.
SamplerExhausted ==
    /\ pc = "negative"
    /\ attempts = MaxRetries
    /\ skipped' = TRUE
    /\ step' = step + 1
    /\ pc' = "draw"
    /\ UNCHANGED <<hyper, U, V, train_set, X, n_epochs, epoch, cur, attempts,
                   bpr_called, last>>

EpochEnd ==
    /\ pc = "draw"
    /\ step = batch_size
    /\ epoch' = epoch + 1
    /\ pc' = "epoch"
    /\ UNCHANGED <<hyper, U, V, train_set, X, n_epochs, step, cur, attempts,
                   skipped, bpr_called, last>>

\* The epochs are done and bpr() returns; what it sampled from and with is
\* read no more.
BprReturn ==
    /\ pc = "epoch"
    /\ epoch >= n_epochs
    /\ pc' = "bpr_returned"
    /\ X' = {}
    /\ step' = 0
    /\ cur' = <<0, 0>>
    /\ attempts' = 0
    /\ UNCHANGED <<hyper, U, V, train_set, n_epochs, epoch, skipped, bpr_called, last>>

\* bpr() has returned factors of shapes (num_users, k) and (num_items, k);
\* fit() stores them in self.U and self.V.
FitReturn ==
    /\ pc = "bpr_returned"
    /\ U' \in Matrix(num_users, k)
    /\ V' \in Matrix(num_items, k)
    /\ last' = FitResult("ok")
    /\ pc' = "returned"
    /\ LocalsDropped
    /\ UNCHANGED <<hyper, train_set, bpr_called>>

Train ==
    \/ BprInit
    \/ EpochBegin
    \/ DrawTriple
    \/ NegativeAccepted
    \/ NegativeRejected
    \/ SamplerExhausted
    \/ EpochEnd
    \/ BprReturn
    \/ FitReturn

Fit == \E ds \in Datasets : FitPretrained(ds) \/ FitBegin(ds)

----------------------------------------------------------------------------
\* score() and rank()

\* TrainSet.is_unk_user, is_unk_item: an index outside the trained population.
is_unk_user(user_id) == user_id >= num_users
is_unk_item(item_id) == item_id >= num_items

\* Recommender.default_score(): the score of an item unseen in training.
default_score == train_set[1].default_score

Raise(exception) == [outcome |-> exception, score |-> 0, ranked |-> << >>]
ReturnScore(x) == [outcome |-> "ok", score |-> x, ranked |-> << >>]
ReturnRanked(ids) == [outcome |-> "ok", score |-> 0, ranked |-> ids]

\* numpy's a.dot(b) of two vectors of one length.
RECURSIVE DotUpTo(_, _, _)
DotUpTo(a, b, n) == IF n = 0 THEN 0 ELSE DotUpTo(a, b, n - 1) + a[n] * b[n]
Dot(a, b) == DotUpTo(a, b, Len(a))

\* score() without the check of the item.
score_ItemUnchecked(user_id, item_id) ==
    IF train_set = None THEN Raise("AttributeError")
    ELSE IF is_unk_user(user_id) THEN Raise("ScoreException")
    ELSE IF V = None THEN Raise("TypeError")
    ELSE IF item_id >= Len(V) THEN Raise("IndexError")
    ELSE IF U = None THEN Raise("TypeError")
    ELSE IF user_id >= Len(U) THEN Raise("IndexError")
    ELSE IF Len(V[item_id + 1]) # Len(U[user_id + 1]) THEN Raise("ValueError")
    ELSE ReturnScore(Dot(V[item_id + 1], U[user_id + 1]))

score(user_id, item_id) ==
    IF train_set = None THEN Raise("AttributeError")
    ELSE IF is_unk_user(user_id) \/ is_unk_item(item_id) THEN Raise("ScoreException")
    ELSE IF V = None THEN Raise("TypeError")
    ELSE IF item_id >= Len(V) THEN Raise("IndexError")
    ELSE IF U = None THEN Raise("TypeError")
    ELSE IF user_id >= Len(U) THEN Raise("IndexError")
    ELSE IF Len(V[item_id + 1]) # Len(U[user_id + 1]) THEN Raise("ValueError")
    ELSE ReturnScore(Dot(V[item_id + 1], U[user_id + 1]))

\* The permutations of 0..n-1, as sequences.
MaxLength == MaxItems + 1
Permutations ==
    [n \in 0..MaxLength |->
        {p \in [1..n -> 0..n-1] : \A a, b \in 1..n : a # b => p[a] # p[b]}]

\* ndarray.argsort(): the indices that put the scores in ascending order.  The
\* default kind is an unstable sort: equal scores come in any order.
argsort(scores) ==
    {p \in Permutations[Len(scores)] :
        \A a \in 1..Len(scores)-1 : scores[p[a] + 1] <= scores[p[a + 1] + 1]}

\* The reversal left out.
Reversed_Forgotten(ids) == ids

\* ids[::-1]
Reversed(ids) == [a \in 1..Len(ids) |-> ids[Len(ids) + 1 - a]]

Elements(ids) == {ids[a] : a \in 1..Len(ids)}

\* ids[np.in1d(ids, candidate_item_ids)]
Masked(ids, candidate_item_ids) ==
    LET In(x) == x \in Elements(candidate_item_ids) IN SelectSeq(ids, In)

\* max(candidate_item_ids), of a list that is not empty.
MaxOf(ids) == CHOOSE m \in Elements(ids) : \A x \in Elements(ids) : x <= m

\* np.arange(n)
Arange(n) == [a \in 1..n |-> a - 1]

\* self.V.dot(self.U[user_id, :])
known_item_scores(user_id) == [i \in 1..Len(V) |-> Dot(V[i], U[user_id + 1])]

\* np.ones(n) * default_score with [:num_items] = known_item_scores; a vector
\* of one score is broadcast over the slice.
user_pref_scores(user_id, n) ==
    [i \in 1..n |->
        IF i > num_items THEN default_score
        ELSE IF Len(V) = 1 THEN known_item_scores(user_id)[1]
        ELSE known_item_scores(user_id)[i]]

\* rank() computing the scores before it looks whether the user is known.
rank_ScoresFirst(user_id, restricted, candidate_item_ids) ==
    IF train_set = None THEN {Raise("AttributeError")}
    ELSE IF V = None THEN {Raise("AttributeError")}
    ELSE IF U = None THEN {Raise("TypeError")}
    ELSE IF user_id >= Len(U) THEN {Raise("IndexError")}
    ELSE IF Len(V[1]) # Len(U[user_id + 1]) THEN {Raise("ValueError")}
    ELSE IF is_unk_user(user_id) THEN
        IF ~restricted THEN {ReturnRanked(Arange(num_items))}
        ELSE {ReturnRanked(candidate_item_ids)}
    ELSE IF ~restricted THEN
        {ReturnRanked(Reversed(p)) : p \in argsort(known_item_scores(user_id))}
    ELSE IF candidate_item_ids = << >> THEN {Raise("ValueError")}
    ELSE IF Len(V) # num_items /\ Len(V) # 1 THEN {Raise("ValueError")}
    ELSE
        LET n == IF MaxOf(candidate_item_ids) + 1 > num_items
                 THEN MaxOf(candidate_item_ids) + 1 ELSE num_items
        IN  {ReturnRanked(Masked(Reversed(p), candidate_item_ids)) :
                p \in argsort(user_pref_scores(user_id, n))}

\* Every outcome rank() can have; restricted is FALSE for
\* candidate_item_ids = None.
rank(user_id, restricted, candidate_item_ids) ==
    IF train_set = None THEN {Raise("AttributeError")}
    ELSE IF is_unk_user(user_id) THEN
        IF ~restricted THEN {ReturnRanked(Arange(num_items))}
        ELSE {ReturnRanked(candidate_item_ids)}
    ELSE IF V = None THEN {Raise("AttributeError")}
    ELSE IF U = None THEN {Raise("TypeError")}
    ELSE IF user_id >= Len(U) THEN {Raise("IndexError")}
    ELSE IF Len(V[1]) # Len(U[user_id + 1]) THEN {Raise("ValueError")}
    ELSE IF ~restricted THEN
        {ReturnRanked(Reversed(p)) : p \in argsort(known_item_scores(user_id))}
    ELSE IF candidate_item_ids = << >> THEN {Raise("ValueError")}
    ELSE IF Len(V) # num_items /\ Len(V) # 1 THEN {Raise("ValueError")}
    ELSE
        LET n == IF MaxOf(candidate_item_ids) + 1 > num_items
                 THEN MaxOf(candidate_item_ids) + 1 ELSE num_items
        IN  {ReturnRanked(Masked(Reversed(p), candidate_item_ids)) :
                p \in argsort(user_pref_scores(user_id, n))}

\* Arguments exercised: every known index and unknown ones; the candidate
\* lists are the empty list, the singletons and the pairs.
UserIds == {0, 1, 2}
ItemIds == 0..MaxItems
CandidateLists == UNION {[1..n -> ItemIds] : n \in {0, 1, 2}}

Score(user_id, item_id) ==
    /\ pc = "idle"
    /\ LET r == score(user_id, item_id)
       IN  last' = [NoCall EXCEPT !.op = "score", !.user = user_id, !.item = item_id,
                                  !.outcome = r.outcome, !.score = r.score]
    /\ pc' = "returned"
    /\ UNCHANGED <<hyper, U, V, train_set, locals, bpr_called>>

Rank(user_id, restricted, candidate_item_ids) ==
    /\ pc = "idle"
    /\ \E r \in rank(user_id, restricted, candidate_item_ids) :
          last' = [NoCall EXCEPT !.op = "rank", !.user = user_id,
                                 !.restricted = restricted,
                                 !.cands = candidate_item_ids,
                                 !.outcome = r.outcome, !.ranked = r.ranked]
    /\ pc' = "returned"
    /\ UNCHANGED <<hyper, U, V, train_set, locals, bpr_called>>

Infer ==
    \/ \E u \in UserIds, i \in ItemIds : Score(u, i)
    \/ \E u \in UserIds : Rank(u, FALSE, << >>)
    \/ \E u \in UserIds, c \in CandidateLists : Rank(u, TRUE, c)

\* The caller takes what the call gave back and goes on.
Resume ==
    /\ pc = "returned"
    /\ pc' = "idle"
    /\ last' = NoCall
    /\ UNCHANGED <<hyper, U, V, train_set, locals, bpr_called>>

Next == Fit \/ Train \/ Infer \/ Resume

Spec == Init /\ [][Next]_vars

\* Construction and fit() alone, for every hyperparameter setting.  Training
\* runs to completion: fit() is a blocking call of one thread.
NextTrain == Fit \/ Train \/ Resume

SpecTrain == InitAnyHyper /\ [][NextTrain]_vars /\ WF_vars(Train)

----------------------------------------------------------------------------
\* What the claims speak of.

Fitted == train_set # None
Returned(op) == pc = "returned" /\ last.op = op
KnownUser == ~is_unk_user(last.user)
KnownItem == ~is_unk_item(last.item)

\* The factors have the shapes of the data model: (num_users, k), (num_items, k).
WellShaped ==
    /\ U # None /\ Len(U) = num_users /\ \A r \in 1..Len(U) : Len(U[r]) = k
    /\ V # None /\ Len(V) = num_items /\ \A r \in 1..Len(V) : Len(V[r]) = k

\* The sum of the products of the entries of two rows.
RECURSIVE SumOfProducts(_, _, _)
SumOfProducts(a, b, d) ==
    IF d > Len(a) THEN 0 ELSE a[d] * b[d] + SumOfProducts(a, b, d + 1)

\* The score a ranking goes by: the trained score of a trained item, the
\* default score of any other.
ItemScore(user_id, item_id) ==
    IF item_id < num_items THEN score(user_id, item_id).score ELSE default_score

NonIncreasing(user_id, ids) ==
    \A a \in 1..Len(ids)-1 : ItemScore(user_id, ids[a]) >= ItemScore(user_id, ids[a + 1])

NoDuplicates(ids) == \A a, b \in 1..Len(ids) : a # b => ids[a] # ids[b]

\* Items of equal score come in ascending order of index.
TiesAscending(user_id, ids) ==
    \A a, b \in 1..Len(ids) :
        (a < b /\ ItemScore(user_id, ids[a]) = ItemScore(user_id, ids[b])) => ids[a] < ids[b]

\* C1: on a fitted model, score() raises the unknown-entity error whenever the
\* user or the item is unknown, and when it returns a value both are known
\* and the value is the dot product of the user's row of U and the item's row
\* of V.
C1_ScoreUnknownEntity ==
    (Returned("score") /\ Fitted) =>
        /\ (~KnownUser \/ ~KnownItem) => last.outcome = "ScoreException"
        /\ last.outcome = "ok" =>
              /\ KnownUser /\ KnownItem
              /\ last.score = SumOfProducts(U[last.user + 1], V[last.item + 1], 1)

C1_Witness ==
    /\ Returned("score") /\ Fitted
    /\ KnownUser /\ ~KnownItem
    /\ V # None /\ Len(V) > last.item
    /\ last.outcome = "ScoreException"

\* C2: for an unknown user rank() raises nothing and returns the candidate
\* list as it was given, or the item indices 0 .. num_items-1 in ascending
\* order when no list was given, whatever the factor matrices are.
C2_RankUnknownUser ==
    (Returned("rank") /\ Fitted /\ ~KnownUser) =>
        /\ last.outcome = "ok"
        /\ last.restricted => last.ranked = last.cands
        /\ ~last.restricted =>
              /\ Len(last.ranked) = num_items
              /\ \A a \in 1..num_items : last.ranked[a] = a - 1

C2_Witness ==
    /\ Returned("rank") /\ Fitted /\ ~KnownUser
    /\ U = None
    /\ last.restricted /\ last.cands = <<1, 1>>
    /\ last.ranked = <<1, 1>>

\* C3, as claimed: for a known user rank() without candidates returns the
\* items in non-increasing order of score, items of equal score in ascending
\* order of index.
C3_TiesInIndexOrder ==
    (Returned("rank") /\ Fitted /\ KnownUser /\ ~last.restricted /\ WellShaped) =>
        /\ last.outcome = "ok"
        /\ NonIncreasing(last.user, last.ranked)
        /\ TiesAscending(last.user, last.ranked)

\* C3, amended: for a known user rank() without candidates returns every
\* item index once, in non-increasing order of score; the order of items of
\* equal score is left open.
C3_RankedByScore ==
    (Returned("rank") /\ Fitted /\ KnownUser /\ ~last.restricted /\ WellShaped) =>
        /\ last.outcome = "ok"
        /\ Elements(last.ranked) = 0..num_items-1
        /\ NoDuplicates(last.ranked)
        /\ NonIncreasing(last.user, last.ranked)

C3_Witness ==
    /\ Returned("rank") /\ Fitted /\ KnownUser /\ ~last.restricted /\ WellShaped
    /\ num_items = 2
    /\ last.ranked = <<1, 0>>
    /\ ItemScore(last.user, 1) > ItemScore(last.user, 0)

\* C4: for a known user and candidates that are all trained items, rank()
\* returns the unrestricted ranking with the items outside the candidates
\* left out.
C4_RestrictedIsFiltered ==
    (/\ Returned("rank") /\ Fitted /\ KnownUser /\ last.restricted /\ WellShaped
     /\ Elements(last.cands) \subseteq 0..num_items-1) =>
        /\ last.outcome = "ok"
        /\ \E all \in rank(last.user, FALSE, << >>) :
              last.ranked = Masked(all.ranked, last.cands)

\* C5: while a factor matrix is absent, score() and rank() on a fitted model
\* raise the not-fitted error.
C5_NotFittedError ==
    (/\ pc = "returned" /\ last.op \in {"score", "rank"} /\ Fitted
     /\ (U = None \/ V = None)) =>
        last.outcome = "NotFittedError"

\* C6: a model that holds an invalid hyperparameter never reaches fit().
C6_InvalidHyperNeverFits ==
    Fitted => (k > 0 /\ max_iter > 0 /\ learning_rate >= 0 /\ lamda >= 0)

\* C7: fit() of a model given both factor matrices completes only if their
\* shapes are (num_users, k) and (num_items, k).
C7_ShapesChecked ==
    (/\ Returned("fit") /\ last.outcome = "ok"
     /\ init_params.U # None /\ init_params.V # None) =>
        (ShapeOK(init_params.U, num_users) /\ ShapeOK(init_params.V, num_items))

\* C8: with trainable false, U and V are at all times the matrices given at
\* construction, and bpr() is never invoked, however often fit() is called.
C8_PretrainedKept ==
    ~trainable => (U = init_params.U /\ V = init_params.V /\ ~bpr_called)

C8_Witness ==
    /\ ~trainable
    /\ Returned("fit")
    /\ U # None /\ V # None
    /\ num_items # Len(V)

\* C9: for a known user and any candidate list, rank() returns each distinct
\* candidate once and nothing else, in non-increasing order of score, an
\* index beyond the trained items having the default score.
C9_RestrictedRanking ==
    (Returned("rank") /\ Fitted /\ KnownUser /\ last.restricted /\ WellShaped) =>
        /\ last.outcome = "ok"
        /\ Elements(last.ranked) = Elements(last.cands)
        /\ NoDuplicates(last.ranked)
        /\ NonIncreasing(last.user, last.ranked)

\* C10: fit() of a trainable model comes back, after exactly max_iter epochs
\* when the factors were accepted, and a sampler that runs out of retries
\* never makes it fail.
Training == pc \in {"bpr_init", "epoch", "draw", "negative", "bpr_returned"}

====
